---- MODULE Spec2Model ----
(***************************************************************************)
(* Model of src/game.js: the falling-drop canvas game.                     *)
(*                                                                         *)
(* Lengths, positions and velocities are fixed-point numbers in hundredths *)
(* of a pixel (2.2 px is 220, 0.45 px is 45), so every decimal constant of *)
(* the source is an exact integer; the binary rounding of IEEE doubles is  *)
(* not modelled.  Times are integer milliseconds.  A Math.random() draw is *)
(* the fraction n / RandDen with n in 0 .. RandDen - 1.                    *)
(*                                                                         *)
(* draw() only paints and is not modelled (its Math.random() call changes  *)
(* no state of the game).                                                  *)
(***************************************************************************)
EXTENDS Integers, Sequences, FiniteSets, TLC

\* ------------------------------------------------------------------------
\* Bounds of the model
\* ------------------------------------------------------------------------
\* frames (host animation frames) in one session
MaxFrames == 76
\* timestamp (ms) of the last frame of a session
MaxTime == 3200
\* while a run is active the player acts only during the first InputFrames
\* frames of the session; a start/restart of an ended run is always possible
InputFrames == 3
\* requestAnimationFrame(loop) callbacks that can be queued at once
MaxPending == 2
\* denominator of the Math.random() draws
RandDen == 4

\* canvas.width / canvas.height pairs <<W, H>> (pixels).  The page sets them;
\* every H here leaves room for the two 90 px margins and the 140 px gap.
\* <<100, 321>>: obstacles spawn over the drop, runs end within some 30
\* frames.  <<10, 2400>>: an obstacle passes the drop four frames after its
\* spawn and leaves the collection before a free fall reaches the bottom.
CanvasSizes == { <<100, 321>>, <<10, 2400>> }
\* milliseconds between two host frames
FrameDts == { 16, 1500 }

\* Bounds of the sessions in a throttled tab (TightenSpec, HoverSpec): the
\* timestamp of the last frame of each, the frames at the beginning of a
\* session that may still come 16 ms apart, the obstacles of a run whose gap
\* and speed draws are free, and how far (pixels) below the middle of the
\* canvas the player lets the drop sink before flapping
TightenTime == 42000
HoverTime == 112500
\* Bound of the sessions with fair scheduling (FairSpec): runs are started
\* during the first StartFrames frames of the session
StartFrames == 40
MixedFrames == 2
FreeObstacles == 1
HoverBelow == 35

\* ------------------------------------------------------------------------
\* Program constants (hundredths of a pixel, milliseconds)
\* ------------------------------------------------------------------------
Px(n) == n * 100

gravity == 45
lift == -880
baseSpeed == 220
speedStep == 5
baseSpawnInterval == 1400
minSpawnInterval == 900
spawnIntervalStep == 20
gapHeight == 140
minGapY == 90
width == 84
dropX == 110
dropR == 14
spawnAhead == 10
pruneMargin == 50
speedUpPercent == 12
tightenPercent == 7

VARIABLES
    W, H,               \* canvas.width, canvas.height (pixels), fixed at load
    drop,               \* [x, y, r, vy, color]
    obstacles,          \* sequence of [x, w, gapY, gapH, scored, type, id]
    lastSpawn, spawnInterval, speed, running, lastTime, score,
    overlay,            \* overlay.style.display
    scoreUI,            \* scoreUI.textContent
    gameoverText,       \* gameoverText.textContent
    now,                \* timestamp of the current host frame
    pending,            \* loop callbacks queued for the next frame
    inFrame,            \* loop callbacks of the current frame not yet run
    frameNo,            \* history: host frames so far in the session
    nextId,             \* history: obstacles spawned since the last reset()
    pruned,             \* history: obstacles spliced out since the last reset()
    last,               \* history: the handler that ran last, and whether a
                        \* run was active when it was called
    probe,              \* a circle and the two rectangles of a pipe, handed
                        \* to circleRectColliding on their own (GeomSpec)
    verdict             \* what circleRectColliding returned for them

vars == << W, H, drop, obstacles, lastSpawn, spawnInterval, speed, running,
           lastTime, score, overlay, scoreUI, gameoverText, now, pending,
           inFrame, frameNo, nextId, pruned, last, probe, verdict >>

\* the simulation state the functions of game.js read and write
State == [ W |-> W, H |-> H, drop |-> drop, obstacles |-> obstacles,
           lastSpawn |-> lastSpawn, spawnInterval |-> spawnInterval,
           speed |-> speed, running |-> running, lastTime |-> lastTime,
           score |-> score, overlay |-> overlay, scoreUI |-> scoreUI,
           gameoverText |-> gameoverText, nextId |-> nextId,
           pruned |-> pruned ]

\* ------------------------------------------------------------------------
\* Text formatting (template literals)
\* ------------------------------------------------------------------------
ScoreText(n) == "Water delivered: " \o ToString(n)

GameOverMessage(n) ==
    "You delivered water to " \o ToString(n)
        \o " people. Real clean water lasts a lifetime."

\* ------------------------------------------------------------------------
\* Math helpers
\* ------------------------------------------------------------------------
Max(a, b) == IF a >= b THEN a ELSE b
Min(a, b) == IF a <= b THEN a ELSE b

\* Math.floor(u * k) for the draw u = n / RandDen
FloorScaled(n, k) == (n * k) \div RandDen

\* Math.random() < percent / 100 for the draw u = n / RandDen
DrawBelow(n, percent) == n * 100 < percent * RandDen

\* the numerators n of the draws
Draws == 0 .. (RandDen - 1)

\* ------------------------------------------------------------------------
\* reset()
\* ------------------------------------------------------------------------
\* mutant: reset() without the line speed = 2.2
ResetKeepsSpeed(s, t) ==
    [ s EXCEPT
        !.drop = [ x |-> Px(dropX), y |-> (Px(s.H)) \div 2, r |-> Px(dropR),
                   vy |-> 0, color |-> "#3fe6ff" ],
        !.obstacles = << >>,
        !.lastSpawn = t,
        !.score = 0,
        !.running = TRUE,
        !.overlay = "none",
        !.scoreUI = ScoreText(0),
        !.lastTime = t,
        !.nextId = 0,
        !.pruned = << >> ]

Reset(s, t) ==
    [ s EXCEPT
        !.drop = [ x |-> Px(dropX), y |-> (Px(s.H)) \div 2, r |-> Px(dropR),
                   vy |-> 0, color |-> "#3fe6ff" ],
        !.obstacles = << >>,
        !.lastSpawn = t,
        !.score = 0,
        !.running = TRUE,
        !.overlay = "none",
        !.scoreUI = ScoreText(0),
        !.lastTime = t,
        !.speed = baseSpeed,
        !.nextId = 0,
        !.pruned = << >> ]

\* ------------------------------------------------------------------------
\* spawnObstacle(now): u is the Math.random() draw
\* ------------------------------------------------------------------------
\* mutant: maxGapY forgets the gap height
MaxGapYNoGap(h) == h - minGapY

MaxGapY(h) == h - minGapY - gapHeight

GapY(h, u) == FloorScaled(u, MaxGapY(h) - minGapY + 1) + minGapY

\* mutant: a new obstacle starts with scored: true
SpawnObstacleScored(s, u) ==
    [ s EXCEPT
        !.obstacles = Append(@, [ x |-> Px(s.W + spawnAhead), w |-> Px(width),
                                  gapY |-> Px(GapY(s.H, u)),
                                  gapH |-> Px(gapHeight),
                                  scored |-> TRUE, type |-> "pipe",
                                  id |-> s.nextId ]),
        !.nextId = @ + 1 ]

SpawnObstacle(s, u) ==
    [ s EXCEPT
        !.obstacles = Append(@, [ x |-> Px(s.W + spawnAhead), w |-> Px(width),
                                  gapY |-> Px(GapY(s.H, u)),
                                  gapH |-> Px(gapHeight),
                                  scored |-> FALSE, type |-> "pipe",
                                  id |-> s.nextId ]),
        !.nextId = @ + 1 ]

\* ------------------------------------------------------------------------
\* circleRectColliding(cx, cy, r, rx, ry, rw, rh)
\* ------------------------------------------------------------------------
\* mutant: the distance test is strict
circleRectCollidingStrict(cx, cy, r, rx, ry, rw, rh) ==
    LET closestX == Max(rx, Min(cx, rx + rw))
        closestY == Max(ry, Min(cy, ry + rh))
        dx == cx - closestX
        dy == cy - closestY
        far == dx > r \/ dx < 0 - r \/ dy > r \/ dy < 0 - r
    IN  (~far) /\ (dx * dx + dy * dy) < r * r

circleRectColliding(cx, cy, r, rx, ry, rw, rh) ==
    LET closestX == Max(rx, Min(cx, rx + rw))
        closestY == Max(ry, Min(cy, ry + rh))
        dx == cx - closestX
        dy == cy - closestY
        \* |dx| > r or |dy| > r already decides the comparison; testing them
        \* first keeps the squares within TLC's 32-bit integers
        far == dx > r \/ dx < 0 - r \/ dy > r \/ dy < 0 - r
    IN  (~far) /\ (dx * dx + dy * dy) <= r * r

\* ------------------------------------------------------------------------
\* endGame()
\* ------------------------------------------------------------------------
\* mutant: endGame() also zeroes the score
EndGameZeroesScore(s) ==
    [ s EXCEPT !.running = FALSE,
               !.gameoverText = GameOverMessage(s.score),
               !.overlay = "flex",
               !.score = 0 ]

\* mutant: endGame() also clears the obstacle collection
EndGameClearsObstacles(s) ==
    [ s EXCEPT !.running = FALSE,
               !.gameoverText = GameOverMessage(s.score),
               !.overlay = "flex",
               !.obstacles = << >> ]

EndGame(s) ==
    [ s EXCEPT !.running = FALSE,
               !.gameoverText = GameOverMessage(s.score),
               !.overlay = "flex" ]

\* ------------------------------------------------------------------------
\* update(dt, now)
\* ------------------------------------------------------------------------
\* mutant: the velocity is integrated without gravity
IntegrateNoGravity(s) ==
    [ s EXCEPT !.drop.y = @ + s.drop.vy ]

\* physics: drop.vy += gravity; drop.y += drop.vy
Integrate(s) ==
    LET vy1 == s.drop.vy + gravity
    IN  [ s EXCEPT !.drop.vy = vy1, !.drop.y = @ + vy1 ]

\* if (now - lastSpawn > spawnInterval)
SpawnDue(s, t) == t - s.lastSpawn > s.spawnInterval

\* the draws update() makes at time t: Math.random() is called only in a
\* step that spawns
DrawsAt(s, t) == IF s.running /\ SpawnDue(s, t) THEN Draws ELSE {0}

\* mutant: the spawnInterval step has no floor
SpawnGateNoFloor(s, t, u1, u2, u3) ==
    IF SpawnDue(s, t)
    THEN LET a == SpawnObstacle(s, u1)
         IN  [ a EXCEPT
                 !.lastSpawn = t,
                 !.speed = IF DrawBelow(u2, speedUpPercent)
                           THEN @ + speedStep ELSE @,
                 !.spawnInterval = IF DrawBelow(u3, tightenPercent)
                                   THEN @ - spawnIntervalStep
                                   ELSE @ ]
    ELSE s

\* spawn: u1, u2, u3 are the three Math.random() draws of a spawning step
SpawnGate(s, t, u1, u2, u3) ==
    IF SpawnDue(s, t)
    THEN LET a == SpawnObstacle(s, u1)
         IN  [ a EXCEPT
                 !.lastSpawn = t,
                 !.speed = IF DrawBelow(u2, speedUpPercent)
                           THEN @ + speedStep ELSE @,
                 !.spawnInterval = IF DrawBelow(u3, tightenPercent)
                                   THEN Max(minSpawnInterval,
                                            @ - spawnIntervalStep)
                                   ELSE @ ]
    ELSE s

\* obstacles.splice(i, 1)
RemoveAt(q, i) == SubSeq(q, 1, i - 1) \o SubSeq(q, i + 1, Len(q))

\* mutant: the scoring test reads the leading edge against the drop's centre
PassedLeadingEdge(ob, d) == ob.x < d.x

\* the scoring test of the move loop
Passed(ob, d) == (ob.x + ob.w) < d.x - d.r

\* the removal test of the move loop
OffScreen(ob) == ob.x + ob.w < Px(0 - pruneMargin)

\* mutant: the scoring branch forgets ob.scored = true
MoveOneNoFlag(s, i) ==
    LET ob0 == s.obstacles[i]
        ob1 == [ ob0 EXCEPT !.x = @ - s.speed ]
        hit == (~ob1.scored) /\ Passed(ob1, s.drop)
        s1  == IF hit
               THEN [ s EXCEPT !.score = @ + 1,
                               !.scoreUI = ScoreText(s.score + 1) ]
               ELSE s
    IN  IF OffScreen(ob1)
        THEN [ s1 EXCEPT !.obstacles = RemoveAt(@, i),
                         !.pruned = Append(@, ob1) ]
        ELSE [ s1 EXCEPT !.obstacles[i] = ob1 ]

\* mutant: the scoring branch forgets to refresh scoreUI.textContent
MoveOneNoText(s, i) ==
    LET ob0 == s.obstacles[i]
        ob1 == [ ob0 EXCEPT !.x = @ - s.speed ]
        hit == (~ob1.scored) /\ Passed(ob1, s.drop)
        ob2 == IF hit THEN [ ob1 EXCEPT !.scored = TRUE ] ELSE ob1
        s1  == IF hit THEN [ s EXCEPT !.score = @ + 1 ] ELSE s
    IN  IF OffScreen(ob2)
        THEN [ s1 EXCEPT !.obstacles = RemoveAt(@, i),
                         !.pruned = Append(@, ob2) ]
        ELSE [ s1 EXCEPT !.obstacles[i] = ob2 ]

\* mutant: the removal test reads ob.x before ob.x -= speed
MoveOneStaleRemoval(s, i) ==
    LET ob0 == s.obstacles[i]
        ob1 == [ ob0 EXCEPT !.x = @ - s.speed ]
        hit == (~ob1.scored) /\ Passed(ob1, s.drop)
        ob2 == IF hit THEN [ ob1 EXCEPT !.scored = TRUE ] ELSE ob1
        s1  == IF hit
               THEN [ s EXCEPT !.score = @ + 1,
                               !.scoreUI = ScoreText(s.score + 1) ]
               ELSE s
    IN  IF OffScreen(ob0)
        THEN [ s1 EXCEPT !.obstacles = RemoveAt(@, i),
                         !.pruned = Append(@, ob2) ]
        ELSE [ s1 EXCEPT !.obstacles[i] = ob2 ]

\* one iteration of the move loop, on obstacles[i]
MoveOne(s, i) ==
    LET ob0 == s.obstacles[i]
        ob1 == [ ob0 EXCEPT !.x = @ - s.speed ]
        hit == (~ob1.scored) /\ Passed(ob1, s.drop)
        ob2 == IF hit THEN [ ob1 EXCEPT !.scored = TRUE ] ELSE ob1
        s1  == IF hit
               THEN [ s EXCEPT !.score = @ + 1,
                               !.scoreUI = ScoreText(s.score + 1) ]
               ELSE s
    IN  IF OffScreen(ob2)
        THEN [ s1 EXCEPT !.obstacles = RemoveAt(@, i),
                         !.pruned = Append(@, ob2) ]
        ELSE [ s1 EXCEPT !.obstacles[i] = ob2 ]

\* for (let i = obstacles.length - 1; i >= 0; i--) { ... }: the body runs for
\* the indices from i down that the collection has
RECURSIVE MoveFrom(_, _)
MoveFrom(s, i) ==
    IF i < 1 \/ i > Len(s.obstacles) THEN s
    ELSE MoveFrom(MoveOne(s, i), i - 1)

\* mutant: the loop runs by ascending index, so the obstacle that slides
\* into the slot of a spliced one is skipped
MoveObstaclesSkipping(s) ==
    LET a == MoveFrom(s, Len(s.obstacles))
    IN  IF Len(a.obstacles) < Len(s.obstacles) /\ Len(a.obstacles) >= 1
        THEN [ a EXCEPT !.obstacles[1].x = @ + s.speed ]
        ELSE a

MoveObstacles(s) == MoveFrom(s, Len(s.obstacles))

\* collisions with pipes: the top or the bottom rectangle of ob
HitsTop(s, ob) ==
    circleRectColliding(s.drop.x, s.drop.y, s.drop.r,
                        ob.x, 0, ob.w, ob.gapY)

HitsBottom(s, ob) ==
    circleRectColliding(s.drop.x, s.drop.y, s.drop.r,
                        ob.x, ob.gapY + ob.gapH, ob.w,
                        Px(s.H) - (ob.gapY + ob.gapH))

\* mutant: the collision loop tests the top rectangle only
HitsPipeTopOnly(s) ==
    \E i \in 1 .. Len(s.obstacles) : HitsTop(s, s.obstacles[i])

HitsPipe(s) ==
    \E i \in 1 .. Len(s.obstacles) :
        HitsTop(s, s.obstacles[i]) \/ HitsBottom(s, s.obstacles[i])

\* mutant: only the top edge is tested
OutOfBoundsTopOnly(s) == s.drop.y + s.drop.r < 0

\* falling off bottom or above top
OutOfBounds(s) ==
    \/ s.drop.y - s.drop.r > Px(s.H)
    \/ s.drop.y + s.drop.r < 0

\* mutant: the spawn block comes after the move loop
MovedSpawnLast(s, t, u1, u2, u3) ==
    SpawnGate(MoveObstacles(Integrate(s)), t, u1, u2, u3)

\* the state update() has built when it reaches the collision loop
Moved(s, t, u1, u2, u3) == MoveObstacles(SpawnGate(Integrate(s), t, u1, u2, u3))

\* mutant: update() without if (!running) return
UpdateNoGuard(s, t, u1, u2, u3) ==
    LET m == Moved(s, t, u1, u2, u3)
    IN  IF HitsPipe(m) THEN EndGame(m)
        ELSE IF OutOfBounds(m) THEN EndGame(m)
        ELSE m

Update(s, t, u1, u2, u3) ==
    IF ~s.running THEN s
    ELSE LET m == Moved(s, t, u1, u2, u3)
         IN  IF HitsPipe(m) THEN EndGame(m)
             ELSE IF OutOfBounds(m) THEN EndGame(m)
             ELSE m

\* ------------------------------------------------------------------------
\* loop(now), flap(), the restart button
\* ------------------------------------------------------------------------
\* update(dt, now); draw(); lastTime = now
LoopBody(s, t, u1, u2, u3) ==
    [ Update(s, t, u1, u2, u3) EXCEPT !.lastTime = t ]

\* mutant: loop() requests the next frame whatever running is
RescheduledAlways(s) == 1

\* if (running) requestAnimationFrame(loop)
Rescheduled(s) == IF s.running THEN 1 ELSE 0

\* mutant: the impulse is added to the velocity (drop.vy += lift)
FlapBodyAddsLift(s, t) ==
    IF ~s.running THEN Reset(s, t)
    ELSE [ s EXCEPT !.drop.vy = @ + lift ]

FlapBody(s, t) ==
    IF ~s.running THEN Reset(s, t)
    ELSE [ s EXCEPT !.drop.vy = lift ]

Install(s) ==
    /\ drop' = s.drop
    /\ obstacles' = s.obstacles
    /\ lastSpawn' = s.lastSpawn
    /\ spawnInterval' = s.spawnInterval
    /\ speed' = s.speed
    /\ running' = s.running
    /\ lastTime' = s.lastTime
    /\ score' = s.score
    /\ overlay' = s.overlay
    /\ scoreUI' = s.scoreUI
    /\ gameoverText' = s.gameoverText
    /\ nextId' = s.nextId
    /\ pruned' = s.pruned
    /\ UNCHANGED << W, H, probe, verdict >>

Called(op, wasRunning) == [ op |-> op, running |-> wasRunning ]

\* the state before reset() first runs (lines 20-30)
Boot(w, h) ==
    [ W |-> w, H |-> h, drop |-> [ x |-> 0, y |-> 0, r |-> 0, vy |-> 0,
                                   color |-> "" ],
      obstacles |-> << >>, lastSpawn |-> 0,
      spawnInterval |-> baseSpawnInterval, speed |-> baseSpeed,
      running |-> FALSE, lastTime |-> 0, score |-> 0, overlay |-> "none",
      scoreUI |-> "", gameoverText |-> "", nextId |-> 0, pruned |-> << >> ]

\* no call of circleRectColliding on its own
NoProbe == [ cx |-> 0, cy |-> 0, r |-> 0, x |-> 0, w |-> 0, gapY |-> 0,
             gapH |-> 0, H |-> 0 ]
NoVerdict == [ done |-> FALSE, top |-> FALSE, bottom |-> FALSE ]

\* the script has run: reset(); requestAnimationFrame(loop)
Loaded ==
    \E c \in CanvasSizes :
        LET s == Reset(Boot(c[1], c[2]), 0)
        IN  /\ W = s.W /\ H = s.H
            /\ drop = s.drop
            /\ obstacles = s.obstacles
            /\ lastSpawn = s.lastSpawn
            /\ spawnInterval = s.spawnInterval
            /\ speed = s.speed
            /\ running = s.running
            /\ lastTime = s.lastTime
            /\ score = s.score
            /\ overlay = s.overlay
            /\ scoreUI = s.scoreUI
            /\ gameoverText = s.gameoverText
            /\ nextId = s.nextId
            /\ pruned = s.pruned
            /\ now = 0
            /\ pending = 1
            /\ inFrame = 0
            /\ frameNo = 0
            /\ last = Called("load", FALSE)

Init == Loaded /\ probe = NoProbe /\ verdict = NoVerdict

\* the player can act now
CanAct == running => frameNo < InputFrames

\* a host frame begins and runs the first queued loop callback
FrameLoop ==
    /\ inFrame = 0
    /\ pending > 0
    /\ frameNo < MaxFrames
    /\ \E d \in FrameDts :
       \E u1 \in DrawsAt(State, now + d), u2 \in DrawsAt(State, now + d),
          u3 \in DrawsAt(State, now + d) :
         LET s == LoopBody(State, now + d, u1, u2, u3)
         IN  /\ now + d <= MaxTime
             /\ now' = now + d
             /\ Install(s)
             /\ inFrame' = pending - 1
             /\ pending' = Rescheduled(s)
    /\ frameNo' = frameNo + 1
    /\ last' = Called("loop", running)

\* the next loop callback of the same host frame (same timestamp)
NextLoop ==
    /\ inFrame > 0
    /\ \E u1 \in DrawsAt(State, now), u2 \in DrawsAt(State, now),
          u3 \in DrawsAt(State, now) :
         LET s == LoopBody(State, now, u1, u2, u3)
         IN  /\ Install(s)
             /\ pending' = pending + Rescheduled(s)
    /\ inFrame' = inFrame - 1
    /\ last' = Called("loop", running)
    /\ UNCHANGED << now, frameNo >>

\* pointerdown on the canvas, or the Space key, while a run is active
Flap ==
    /\ inFrame = 0
    /\ running
    /\ CanAct
    /\ Install(FlapBody(State, now))
    /\ last' = Called("flap", TRUE)
    /\ UNCHANGED << now, pending, inFrame, frameNo >>

\* pointerdown on the canvas, or the Space key, after the run has ended
FlapStart ==
    /\ inFrame = 0
    /\ ~running
    /\ pending < MaxPending
    /\ Install(FlapBody(State, now))
    /\ pending' = pending + 1
    /\ last' = Called("flap", FALSE)
    /\ UNCHANGED << now, inFrame, frameNo >>

\* click on the restart button
Restart ==
    /\ inFrame = 0
    /\ CanAct
    /\ pending < MaxPending
    /\ Install(Reset(State, now))
    /\ pending' = pending + 1
    /\ last' = Called("restart", running)
    /\ UNCHANGED << now, inFrame, frameNo >>

Next == FrameLoop \/ NextLoop \/ Flap \/ FlapStart \/ Restart

Spec == Init /\ [][Next]_vars

\* ------------------------------------------------------------------------
\* Sessions in a throttled tab: the host runs the animation frames 1500 ms
\* apart, so every physics step of an active run spawns; the player keeps
\* the drop hovering around the middle of the tall canvas, and after the
\* first obstacles of a run the gap draw is 0.5 and the speed draw is above
\* its threshold, so that a run can last
\* ------------------------------------------------------------------------
ThrottledDts == { d \in FrameDts : d > baseSpawnInterval }

\* the player flaps as soon as the drop has sunk HoverBelow under the middle
FlapDue ==
    /\ running
    /\ drop.vy > 0
    /\ drop.y >= Px(H) \div 2 + Px(HoverBelow)

\* the Math.random() draws of a spawning step in these sessions
GapDrawsAt(s, t) ==
    IF s.nextId < FreeObstacles THEN DrawsAt(s, t) ELSE { RandDen \div 2 }

DriftDrawsAt(s, t) ==
    IF s.nextId < FreeObstacles THEN DrawsAt(s, t) ELSE { RandDen - 1 }

TightenDrawsAt(s, t, free) ==
    IF free THEN DrawsAt(s, t) ELSE { RandDen - 1 }

\* the tall canvas of CanvasSizes
ThrottledInit == Init /\ << W, H >> = << 10, 2400 >>

\* a host frame of a session that ends at limit; free: the draw of the
\* spawnInterval test is free
ThrottledFrame(limit, free) ==
    /\ inFrame = 0
    /\ pending > 0
    /\ ~FlapDue
    /\ \E d \in (IF frameNo < MixedFrames THEN FrameDts ELSE ThrottledDts) :
       \E u1 \in GapDrawsAt(State, now + d), u2 \in DriftDrawsAt(State, now + d),
          u3 \in TightenDrawsAt(State, now + d, free) :
         LET s == LoopBody(State, now + d, u1, u2, u3)
         IN  /\ now + d <= limit
             /\ now' = now + d
             /\ Install(s)
             /\ inFrame' = pending - 1
             /\ pending' = Rescheduled(s)
    /\ frameNo' = frameNo + 1
    /\ last' = Called("loop", running)

\* pointerdown / Space while a run is active, when the player's rule says so
HoverFlap ==
    /\ inFrame = 0
    /\ FlapDue
    /\ Install(FlapBody(State, now))
    /\ last' = Called("flap", TRUE)
    /\ UNCHANGED << now, pending, inFrame, frameNo >>

\* a session of many short and longer runs in which spawnInterval tightens
TightenFrame == ThrottledFrame(TightenTime, TRUE)

TightenNext == TightenFrame \/ NextLoop \/ HoverFlap \/ FlapStart \/ Restart

TightenSpec == ThrottledInit /\ [][TightenNext]_vars

\* a session long enough for obstacles to leave a crowded collection
HoverFrame == ThrottledFrame(HoverTime, FALSE)

HoverNext == HoverFrame \/ NextLoop \/ HoverFlap \/ FlapStart \/ Restart

HoverSpec == ThrottledInit /\ [][HoverNext]_vars

\* ------------------------------------------------------------------------
\* Sessions with fair scheduling: the host keeps running animation frames
\* as long as a loop callback is queued, and runs every callback of a
\* frame.  The first MixedFrames frames come 16 ms or 1500 ms apart, the
\* later ones 16 ms; the session has MaxFrames frames, and runs are started
\* early enough to end within them.
\* ------------------------------------------------------------------------
\* the short canvas of CanvasSizes
FairInit == Init /\ << W, H >> = << 100, 321 >>

FairFrame ==
    /\ inFrame = 0
    /\ pending > 0
    /\ frameNo < MaxFrames
    /\ \E d \in FrameDts :
       \E u1 \in DrawsAt(State, now + d), u2 \in DrawsAt(State, now + d),
          u3 \in DrawsAt(State, now + d) :
         LET s == LoopBody(State, now + d, u1, u2, u3)
         IN  /\ d \in ThrottledDts => frameNo < MixedFrames
             /\ now' = now + d
             /\ Install(s)
             /\ inFrame' = pending - 1
             /\ pending' = Rescheduled(s)
    /\ frameNo' = frameNo + 1
    /\ last' = Called("loop", running)

FairFlapStart == frameNo < StartFrames /\ FlapStart

FairRestart == frameNo < StartFrames /\ Restart

FairNext == FairFrame \/ NextLoop \/ Flap \/ FairFlapStart \/ FairRestart

\* what the host does in a FairFrame step and in a NextLoop step: it begins
\* the next frame, it runs the next callback of the current frame.  A step
\* of FairNext is a HostFrame step exactly if it is a FairFrame step, and a
\* HostCallback step exactly if it is a NextLoop step, and each pair is
\* enabled in the same states.
HostFrame ==
    /\ inFrame = 0
    /\ pending > 0
    /\ frameNo < MaxFrames
    /\ frameNo' = frameNo + 1

HostCallback ==
    /\ inFrame > 0
    /\ inFrame' = inFrame - 1

FairSpec ==
    /\ FairInit /\ [][FairNext]_vars
    /\ WF_frameNo(HostFrame) /\ WF_inFrame(HostCallback)

\* ------------------------------------------------------------------------
\* circleRectColliding on its own: the arguments the collision loop of
\* update() hands to it for one pipe (pixels), drawn from bounded sets
\* ------------------------------------------------------------------------
\* the drop's circle at heights from above the canvas to below it, and a
\* second circle left of the drop
ProbeCircles == [ cx : { 40, 110 }, cy : (0 - 40) .. 340, r : { 14 } ]

\* pipes left of the drop, over it (edges at and next to its centre) and
\* right of it, in the canvas of height 321
ProbePipes == [ x : { 10, 26, 27, 100, 110, 111, 130 }, w : { 84 },
                gapY : { 50, 90, 91 }, gapH : { 140 }, H : { 321 } ]

Probes ==
    { [ cx |-> c.cx, cy |-> c.cy, r |-> c.r, x |-> q.x, w |-> q.w,
        gapY |-> q.gapY, gapH |-> q.gapH, H |-> q.H ] :
      c \in ProbeCircles, q \in ProbePipes }

GeomInit == Loaded /\ probe \in Probes /\ verdict = NoVerdict

\* the two calls of the collision loop for one pipe
Collide ==
    /\ ~verdict.done
    /\ verdict' =
         [ done |-> TRUE,
           top |-> circleRectColliding(probe.cx, probe.cy, probe.r,
                                       probe.x, 0, probe.w, probe.gapY),
           bottom |-> circleRectColliding(probe.cx, probe.cy, probe.r,
                                          probe.x, probe.gapY + probe.gapH,
                                          probe.w,
                                          probe.H - probe.gapY - probe.gapH) ]
    /\ UNCHANGED << W, H, drop, obstacles, lastSpawn, spawnInterval, speed,
                    running, lastTime, score, overlay, scoreUI, gameoverText,
                    now, pending, inFrame, frameNo, nextId, pruned, last,
                    probe >>

GeomNext == Collide

GeomSpec == GeomInit /\ [][GeomNext]_vars

\* ------------------------------------------------------------------------
\* Vocabulary of the properties
\* ------------------------------------------------------------------------
\* the step just taken ran loop() / reset() / flap() on an active run
LoopStep == last'.op = "loop"
ResetStep == last'.op = "restart" \/ (last'.op = "flap" /\ ~last'.running)
ImpulseStep == last'.op = "flap" /\ last'.running

\* every obstacle of the current run: in the collection or spliced out
Live == { obstacles[i] : i \in 1 .. Len(obstacles) }
Gone == { pruned[i] : i \in 1 .. Len(pruned) }
ScoredIds == { o.id : o \in { q \in Live \cup Gone : q.scored } }
LiveIds == { o.id : o \in Live }
GoneIds == { o.id : o \in Gone }

\* C1: score never decreases from one state to the next within a run, grows
\* only in a physics step of an active run and there by one per obstacle
\* that the step marks scored, and is set to 0 by every reset() and by
\* nothing else (not by the end of a run).
C1_ScoreMonotone ==
    [][ IF ResetStep
        THEN score' = 0
        ELSE /\ score' >= score
             /\ score' # score => (LoopStep /\ running)
             /\ score' = score + Cardinality(ScoredIds' \ ScoredIds) ]_vars

\* a run that ended with a positive score still shows it
C1_Witness == ~running /\ score >= 1 /\ last.op = "loop"

\* C2: score is the number of obstacles spawned since the last reset()
\* whose scored flag is set, spliced-out obstacles included, and no obstacle
\* leaves the collection unscored.
C2_ScoreCountsScored ==
    /\ score = Cardinality(ScoredIds)
    /\ \A o \in Gone : o.scored
    /\ Cardinality(LiveIds \cup GoneIds) = Len(obstacles) + Len(pruned)
    /\ nextId = Len(obstacles) + Len(pruned)

\* an obstacle has been scored and spliced out
C2_Witness == Len(pruned) >= 1 /\ score >= 1

\* C3: an obstacle is unscored when spawned; its flag is set only by a
\* physics step of an active run, in the step that first brings x + w below
\* drop.x - drop.r, which adds exactly 1 to score for it; no tick and no
\* activate action clears a set flag.
C3_ScoredOnce ==
    [][ ~ResetStep =>
          /\ \A a \in Live \cup Gone : \A b \in Live' \cup Gone' :
                a.id = b.id =>
                  /\ a.scored => b.scored
                  /\ (~a.scored /\ b.scored) =>
                        /\ LoopStep /\ running
                        /\ ~(a.x + a.w < drop.x - drop.r)
                        /\ b.x + b.w < drop'.x - drop'.r
          /\ \A b \in Live' \cup Gone' :
                (b.id \notin (LiveIds \cup GoneIds)) =>
                  (b.scored <=> b.x + b.w < drop'.x - drop'.r)
          /\ score' - score = Cardinality(ScoredIds' \ ScoredIds) ]_vars

\* a scored obstacle is still in the collection after an activate action
C3_Witness ==
    /\ \E i \in 1 .. Len(obstacles) : obstacles[i].scored
    /\ last = Called("flap", TRUE)

C5_EndGameEffect ==
    [][ /\ (running /\ ~running') =>
              /\ LoopStep
              /\ overlay' = "flex"
              /\ \E u1 \in Draws, u2 \in Draws, u3 \in Draws :
                    LET m == Moved(State, now', u1, u2, u3)
                    IN  /\ score' = m.score
                        /\ obstacles' = m.obstacles
                        /\ drop' = m.drop
        /\ ~running' =>
              /\ gameoverText' = "You delivered water to " \o ToString(score')
                     \o " people. Real clean water lasts a lifetime."
              /\ score' = 0 => gameoverText' =
                   "You delivered water to 0 people. Real clean water lasts a lifetime."
      ]_vars

\* a run has ended with obstacles on screen and one person served
C5_Witness ==
    /\ ~running
    /\ score = 1
    /\ Len(obstacles) >= 1
    /\ gameoverText =
         "You delivered water to 1 people. Real clean water lasts a lifetime."

\* C6: an activate action on an active run sets drop.vy to -8.8 and changes
\* nothing else: not the drop's position, the obstacles, score, speed,
\* spawnInterval, lastSpawn, running or the texts, and it queues no loop
\* callback.
C6_FlapEffect ==
    [][ ImpulseStep =>
          /\ drop' = [ drop EXCEPT !.vy = -880 ]
          /\ UNCHANGED << obstacles, score, speed, spawnInterval, lastSpawn,
                          running, lastTime, overlay, scoreUI, gameoverText,
                          pending, inFrame, now, W, H >> ]_vars

\* the impulse has replaced a velocity built up by falling, obstacle present
C6_Witness ==
    /\ last = Called("flap", TRUE)
    /\ drop.vy = -880
    /\ drop.y > Px(H) \div 2
    /\ Len(obstacles) >= 1

\* C7: every start/restart (the restart button in any state, an activate
\* action on an ended run) leaves the game running with the drop at x = 110,
\* y = H / 2, vy = 0, r = 14, no obstacles, score 0, lastSpawn at the current
\* time, speed 2.2 and the overlay hidden, and queues one loop callback.
C7_RestartState ==
    [][ ResetStep =>
          /\ running'
          /\ drop'.x = 11000 /\ 2 * drop'.y = Px(H) /\ drop'.vy = 0
          /\ drop'.r = 1400
          /\ obstacles' = << >>
          /\ score' = 0
          /\ lastSpawn' = now'
          /\ speed' = 220
          /\ overlay' = "none"
          /\ pending' = pending + 1 ]_vars

\* a restart after obstacles had been spawned (spawnInterval has tightened)
C7_Witness ==
    /\ last.op \in { "restart", "flap" }
    /\ running /\ obstacles = << >> /\ score = 0
    /\ lastSpawn = now /\ now > 0
    /\ spawnInterval < baseSpawnInterval
    /\ speed = baseSpeed

\* C8: no obstacle of the collection has x + w < -50; an obstacle is spliced
\* out in the step that first brings it there, and never returns to the
\* collection.
C8_PrunedOffScreen ==
    /\ \A o \in Live : ~(o.x + o.w < -5000)
    /\ \A o \in Gone : o.x + o.w < -5000 /\ ~(o.x + speed + o.w < -5000)
    /\ LiveIds \cap GoneIds = {}

\* an obstacle has been spliced out while another is on screen
C8_Witness == Len(pruned) >= 1 /\ running

\* C9: a physics step called while running is false changes nothing of the
\* simulation: drop, obstacles, score, speed, spawnInterval, lastSpawn,
\* running and the displayed texts.
C9_IdleUpdateNoOp ==
    [][ (LoopStep /\ ~running) =>
          UNCHANGED << drop, obstacles, score, speed, spawnInterval,
                       lastSpawn, running, overlay, scoreUI, gameoverText,
                       nextId, pruned >> ]_vars

\* loop() has run on an ended game that still shows obstacles
C9_Witness ==
    /\ last = Called("loop", FALSE)
    /\ Len(obstacles) >= 1

\* C10: every obstacle has an integer gapY with 90 <= gapY and
\* gapY + 140 <= H - 90, and gapH = 140, from the step that spawns it on;
\* no later step changes its gapY or gapH.
C10_GapWithinMargins ==
    [][ /\ \A b \in Live' \cup Gone' :
              /\ b.gapY % 100 = 0
              /\ 9000 <= b.gapY
              /\ b.gapY + 14000 <= Px(H) - 9000
              /\ b.gapH = 14000
        /\ ~ResetStep =>
              \A a \in Live \cup Gone : \A b \in Live' \cup Gone' :
                 a.id = b.id => (a.gapY = b.gapY /\ a.gapH = b.gapH) ]_vars

\* an obstacle with the largest admissible gapY has been moved by later steps
C10_Witness ==
    \E o \in Live :
        /\ o.gapY > 9000
        /\ o.gapY + o.gapH = Px(H) - 9000
        /\ o.x < Px(W + spawnAhead) - 2 * baseSpeed

\* C11: a call of loop() requests the next frame exactly when running is
\* true after its physics step: it takes its own callback off the queue and
\* adds one if and only if running holds afterwards.  So a callback is
\* queued whenever a run is active; and once a run has ended, unless the
\* game is started again, eventually no callback is queued, and from then
\* on nothing of the simulation changes except by a start.
C11_TickReschedulesIffRunning ==
    /\ [][ LoopStep =>
             pending' + inFrame'
               = (pending + inFrame - 1) + (IF running' THEN 1 ELSE 0) ]_vars
    /\ [](running => pending + inFrame >= 1)
    /\ (~running) ~> (running \/ pending + inFrame = 0)
    /\ [][ (~running /\ pending + inFrame = 0) =>
             (ResetStep \/ UNCHANGED << drop, obstacles, score, speed,
                                        spawnInterval, lastSpawn, running,
                                        overlay, scoreUI, gameoverText,
                                        lastTime, pending, inFrame >>) ]_vars

\* the last queued callback has run on an ended game and requested no frame
C11_Witness ==
    /\ ~running
    /\ last = Called("loop", FALSE)
    /\ pending = 0
    /\ inFrame = 0

\* C12: while a run is active the drop circle intersects neither rectangle
\* of any obstacle of the collection: a physics step that leaves the drop
\* on the top rectangle (0 .. gapY) or the bottom rectangle (gapY + gapH .. H)
\* of a remaining obstacle ends the run in that same step.
C12_CollisionEndsRun ==
    running => \A o \in Live : ~HitsTop(State, o) /\ ~HitsBottom(State, o)

\* a run ended by the bottom rectangle of a pipe, the drop inside the canvas
C12_Witness ==
    /\ ~running
    /\ last = Called("loop", TRUE)
    /\ \E o \in Live : HitsBottom(State, o) /\ ~HitsTop(State, o)
    /\ ~OutOfBounds(State)

\* C13: the score readout is "Water delivered: {score}" for the current
\* score in every state: after reset(), after every physics step and after
\* every change of score.
C13_ScoreReadout == scoreUI = "Water delivered: " \o ToString(score)

\* the readout after the first obstacle was passed
C13_Witness == score = 1 /\ scoreUI = "Water delivered: 1"

\* the point of [lo, hi] nearest to v
ClampTo(v, lo, hi) == IF v < lo THEN lo ELSE IF v > hi THEN hi ELSE v

\* the point of the rectangle nearest to (cx, cy) is within r of it
WithinR(cx, cy, r, rx, ry, rw, rh) ==
    LET nx == ClampTo(cx, rx, rx + rw)
        ny == ClampTo(cy, ry, ry + rh)
    IN  (cx - nx) * (cx - nx) + (cy - ny) * (cy - ny) <= r * r

\* the verdicts are those of the nearest-point test
VerdictIsNearestPoint ==
    /\ verdict.top = WithinR(probe.cx, probe.cy, probe.r,
                             probe.x, 0, probe.w, probe.gapY)
    /\ verdict.bottom = WithinR(probe.cx, probe.cy, probe.r,
                                probe.x, probe.gapY + probe.gapH, probe.w,
                                probe.H - probe.gapY - probe.gapH)

\* the drop's circle over a pipe: x <= 110 <= x + w
DropOverPipe ==
    /\ probe.cx = 110 /\ probe.r = 14
    /\ probe.x <= 110 /\ 110 <= probe.x + probe.w

\* the drop's circle fits into the gap
DropInGap ==
    /\ probe.gapY + probe.r < probe.cy
    /\ probe.cy < probe.gapY + probe.gapH - probe.r

\* C14 as stated: circleRectColliding is true exactly when the point of the
\* rectangle nearest to the centre is within r; for the drop over a pipe
\* it reports a hit on the top rectangle whenever y - r <= gapY, and no
\* hit on either rectangle whenever gapY + r < y < gapY + gapH - r.
C14_TopHitAnyHeight ==
    verdict.done =>
        /\ VerdictIsNearestPoint
        /\ DropOverPipe =>
              /\ (probe.cy - probe.r <= probe.gapY) => verdict.top
              /\ DropInGap => (~verdict.top /\ ~verdict.bottom)

\* C14 (amended): circleRectColliding is true exactly when the point of the
\* rectangle nearest to the centre is within r; for the drop over a pipe
\* it reports a hit on the top rectangle whenever -r <= y and
\* y - r <= gapY, and no hit on either rectangle whenever
\* gapY + r < y < gapY + gapH - r.
C14_HitSemantics ==
    verdict.done =>
        /\ VerdictIsNearestPoint
        /\ DropOverPipe =>
              /\ (0 - probe.r <= probe.cy /\ probe.cy - probe.r <= probe.gapY)
                    => verdict.top
              /\ DropInGap => (~verdict.top /\ ~verdict.bottom)

\* the drop at y = 100 under the top rectangle (100, 0, 84, 90): a hit
C14_Witness ==
    /\ verdict.done
    /\ probe.cx = 110 /\ probe.cy = 100 /\ probe.r = 14
    /\ probe.x = 100 /\ probe.w = 84 /\ probe.gapY = 90
    /\ verdict.top /\ ~verdict.bottom

\* C15 as stated: an obstacle spawned in a step is not moved in that step;
\* at the end of the step that spawns it its x is the spawn position W + 10.
C15_SpawnNotMoved ==
    [][ \A b \in Live' :
          (b.id \notin (LiveIds \cup GoneIds) /\ ~ResetStep)
            => b.x = Px(W + 10) ]_vars

\* C15 (amended): the spawn gate runs before the move loop and the move loop
\* also moves the obstacle pushed in the same step: at the end of the step
\* that spawns it, its x is W + 10 minus the speed that step ends with.
C15_SpawnMovedSameStep ==
    [][ \A b \in Live' :
          (b.id \notin (LiveIds \cup GoneIds) /\ ~ResetStep)
            => /\ LoopStep /\ running
               /\ b.x = Px(W + 10) - speed'
               /\ lastSpawn' = now' ]_vars

\* an obstacle just spawned in a step that also raised the speed
C15_Witness ==
    /\ last = Called("loop", TRUE)
    /\ lastSpawn = now
    /\ speed = 225
    /\ \E o \in Live : o.x = Px(W + 10) - 225

\* C16: the collection is ordered by spawn time and that is the screen order
\* from left to right: for indices i < j obstacle i was spawned earlier
\* and x[i] < x[j].  Every step keeps it so: a physics step of an active
\* run decrements every obstacle that was in the collection by the speed
\* of that step exactly once, whether it stays or is spliced out, and
\* adds at most the obstacle it spawns, at the end.
C16_SpawnOrder ==
    [][ /\ \A i, j \in 1 .. Len(obstacles') :
              i < j => /\ obstacles'[i].id < obstacles'[j].id
                       /\ obstacles'[i].x < obstacles'[j].x
        /\ (LoopStep /\ running) =>
              /\ \A o \in Live :
                    \E q \in Live' \cup (Gone' \ Gone) :
                        q.id = o.id /\ q.x = o.x - speed'
              /\ \A q \in Live' \cup (Gone' \ Gone) :
                    \/ q.id \in LiveIds
                    \/ q = obstacles'[Len(obstacles')] /\ q.id = nextId
              /\ Len(obstacles') + Len(pruned')
                   = Len(obstacles) + Len(pruned) + (nextId' - nextId) ]_vars

\* an obstacle has left a collection that holds others, in an active run
\* whose speed was raised
C16_Witness ==
    /\ running
    /\ last = Called("loop", TRUE)
    /\ Len(pruned) >= 1
    /\ Len(obstacles) >= 2
    /\ speed > baseSpeed

\* C17: spawnInterval stays within [900, 1400]; a step changes it only if it
\* is a physics step of an active run that spawns an obstacle, and then to
\* the larger of 900 and spawnInterval - 20; reset() leaves it as it is,
\* so it never grows during the whole session.
C17_SpawnIntervalTightens ==
    [][ /\ 900 <= spawnInterval' /\ spawnInterval' <= 1400
        /\ spawnInterval' <= spawnInterval
        /\ spawnInterval' # spawnInterval =>
              /\ LoopStep /\ running
              /\ nextId' = nextId + 1
              /\ spawnInterval' = IF spawnInterval - 20 < 900
                                  THEN 900 ELSE spawnInterval - 20
        /\ ResetStep =>
              /\ spawnInterval' = spawnInterval
              /\ speed' = 220 ]_vars

\* a run started by reset() while spawnInterval was at its floor, and a
\* spawn of that run that would have tightened it further
C17_Witness ==
    /\ spawnInterval = 900
    /\ running
    /\ nextId >= 1
    /\ gameoverText # ""
    /\ lastSpawn = now

\* C18: at most one loop callback is pending at any time.
C18_SingleLoop == pending + inFrame <= 1

\* C19: an obstacle of the collection is scored exactly when x + w is below
\* drop.x - drop.r, and a scored obstacle touches the drop with neither of
\* its rectangles.
C19_ScoredIffPassed ==
    \A o \in Live :
        /\ o.scored <=> (o.x + o.w < drop.x - drop.r)
        /\ o.scored => (~HitsTop(State, o) /\ ~HitsBottom(State, o))

\* a run ended on a pipe while a scored obstacle was still on screen
C19_Witness ==
    /\ ~running
    /\ \E o \in Live : o.scored
    /\ \E o \in Live : ~o.scored /\ (HitsTop(State, o) \/ HitsBottom(State, o))

\* C20: every run ends unless the player keeps acting: with frames that keep
\* coming and a player who stops acting, a run that is active is
\* eventually over.
C20_RunTerminates == running ~> ~running

\* a run that saw neither a pipe nor the player has fallen out of the canvas
C20_Witness ==
    /\ ~running
    /\ last = Called("loop", TRUE)
    /\ nextId = 0
    /\ drop.vy > 0
    /\ drop.y - drop.r > Px(H)

====
